---- MODULE Spec2Model ----
(***************************************************************************)
(* Verification model of the anime renamer:                                *)
(*   - calculate_season_episode  (anime_renamer.py)  absolute episode ->   *)
(*     (season, episode)                                                   *)
(*   - get_unique_filepath / get_unique_rclone_filepath (anime_renamer.py) *)
(*   - get_anime_season_data (anilist_api.py) with the response cache      *)
(*   - process_folder (anime_renamer.py), the per-folder rename loop       *)
(***************************************************************************)
EXTENDS Integers, Sequences, FiniteSets, TLC

VARIABLES
    \* ---- calculate_season_episode call ----
    season_data,        \* the season list passed in: Seq of [id, episodes]
    absolute_episode,   \* the absolute episode passed in
    map_result,         \* <<season, episode>>, or NoneNone for (None, None)
    map_pc,             \* "idle" | "call" | "done"
    \* ---- get_anime_season_data traversal ----
    relations,          \* AniList's answer per id, once it has been asked
    cache,              \* the response cache: id -> None | Some(season list)
    fetched_ids,        \* the set shared through one traversal
    stack,              \* frames of the calls that are in their edge loop
    pending,            \* the id of the call being entered
    force_refresh,      \* the traversal's force_refresh argument
    res_result,         \* what the outermost call returned
    res_pc,             \* "idle" | "call" | "loop" | "done"
    last_return,        \* the most recent return of a call
    traversals,         \* traversals started so far
    root_id,            \* the id the program asked this traversal for
    failures,           \* the calls of this traversal that failed, with
                        \* the seasons each had gathered: Set of [id, seasons]
    \* ---- storage and get_unique_filepath ----
    fs,                 \* the paths that exist (local disk or remote)
    uq_path,            \* the filepath passed to get_unique_*_filepath
    uq_result,          \* the path it returned
    uq_pc,              \* "idle" | "call" | "local" | "remote"
    \* ---- process_folder ----
    videos,             \* files['videos']: Seq of [path, parsed]
    subtitles,          \* files['subtitles']
    all_files,          \* sorted(files['videos'] + files['subtitles'])
    file_index,         \* position of the for loop of line 201 in all_files
    processed_episodes, \* the absolute episodes of the show done so far
    dry_run,            \* the arguments of process_folder
    rclone_remote,
    bundle_ova,
    export_nfo,
    current,            \* season, episode, video_file of this iteration
    sub_list,           \* what is left of list(files['subtitles']), line 281
    dirs,               \* the directories that exist
    nfo_files,          \* the .nfo files written
    ops,                \* the renames printed, with what became of them
    warnings,           \* the logging.warning calls
    pf_pc,              \* "idle" | "file" | "subs" | "done"
    \* ---- process_show_group_local / _rclone of renamer.py ----
    group_files,        \* the parsed files of the show group, as passed in
    remote,             \* TRUE for process_show_group_rclone
    group_videos,       \* videos, sorted by (season, episode)
    pool,               \* subtitles: the subtitles not yet matched
    season_offsets,     \* season -> episodes of the seasons before it
    video_index,        \* position of the loop of line 117 in group_videos
    unmatched_videos,   \* the videos find_smart_match found nothing for
    matches,            \* the pairs made so far, with the tier of each
    sorted_videos,      \* what is left of the zip of line 128
    sorted_subtitles,
    renamed_files,      \* the (old, new) pairs of the report
    unmatched_report,   \* the paths returned as unmatched videos
    group_ops,          \* the renames attempted, with what became of them
    group_pc            \* "idle" | "match" | "relative" | "done"

mapVars == <<season_data, absolute_episode, map_result, map_pc>>

resVars == <<relations, cache, fetched_ids, stack, pending, force_refresh,
             res_result, res_pc, last_return, traversals, root_id, failures>>

uqVars == <<uq_path, uq_result, uq_pc>>

pfVars == <<videos, subtitles, all_files, file_index, processed_episodes,
            dry_run, rclone_remote, bundle_ova, export_nfo, current, sub_list,
            dirs, nfo_files, ops, warnings, pf_pc>>

sgVars == <<group_files, remote, group_videos, pool, season_offsets,
            video_index, unmatched_videos, matches, sorted_videos,
            sorted_subtitles, renamed_files, unmatched_report, group_ops,
            group_pc>>

vars == <<mapVars, resVars, fs, uqVars, pfVars, sgVars>>

----------------------------------------------------------------------------
(* Bounds of the model *)

MaxId == 3          \* season ids are 1..MaxId
MaxEp == 2          \* known episode counts are 0..MaxEp
MaxSeasons == 3     \* length of a season list
MaxAbs == 7         \* absolute episodes are -1..MaxAbs
MaxEdges == 2       \* relation edges of one AniList entry
MaxRelations == 3   \* relation edges of all entries together
MaxTraversals == 2  \* calls of get_anime_season_data by the program
MaxVersion == 3     \* _vN suffixes of the names that exist at the start
MaxExisting == 3    \* files that exist when get_unique_filepath is tried
MaxFiles == 2       \* files of the folder process_folder runs over
MaxFolderSeasons == 2   \* seasons of the show of the folder
MaxFolderEp == 1    \* known episode counts of these seasons are 1..MaxFolderEp
MaxFolderAbs == 2   \* episode numbers in the names of the folder
MaxGroupFiles == 4  \* files of the show group the matcher runs over
MaxGroupSeason == 2 \* seasons in the names of the group are 1..MaxGroupSeason
MaxGroupEp == 2     \* episodes in the names of the group are 1..MaxGroupEp

----------------------------------------------------------------------------
(* Optional values: Python's None is the empty tuple, a value v is <<v>> *)

None == << >>
Some(v) == <<v>>
IsNone(o) == o = << >>
Val(o) == o[1]

\* (None, None), the pair calculate_season_episode returns when it gives up
NoneNone == << >>

\* season is not None
Resolved(r) == r # NoneNone

Range(s) == {s[i] : i \in 1..Len(s)}

SeqsUpTo(S, n) == UNION {[1..k -> S] : k \in 0..n}

\* the AniList ids of the entries
SeasonIds == 1..MaxId

----------------------------------------------------------------------------
(* The parts of the state at rest *)

MapIdle ==
    /\ season_data = << >>
    /\ absolute_episode = 0
    /\ map_result = NoneNone
    /\ map_pc = "idle"

NoReturn == [id |-> 0, value |-> << >>, visited |-> FALSE, queried |-> FALSE]

ResIdle ==
    /\ relations = [n \in SeasonIds |-> None]
    /\ cache = [n \in SeasonIds |-> None]
    /\ fetched_ids = {}
    /\ stack = << >>
    /\ pending = 0
    /\ force_refresh = FALSE
    /\ res_result = << >>
    /\ res_pc = "idle"
    /\ last_return = NoReturn
    /\ traversals = 0
    /\ root_id = 0
    /\ failures = {}

SgIdle ==
    /\ group_files = << >>
    /\ remote = FALSE
    /\ group_videos = << >>
    /\ pool = << >>
    /\ season_offsets = << >>
    /\ video_index = 0
    /\ unmatched_videos = << >>
    /\ matches = << >>
    /\ sorted_videos = << >>
    /\ sorted_subtitles = << >>
    /\ renamed_files = << >>
    /\ unmatched_report = << >>
    /\ group_ops = << >>
    /\ group_pc = "idle"

UqIdle ==
    /\ uq_path = << >>
    /\ uq_result = << >>
    /\ uq_pc = "idle"

PfIdle ==
    /\ videos = << >>
    /\ subtitles = << >>
    /\ all_files = << >>
    /\ file_index = 0
    /\ processed_episodes = {}
    /\ dry_run = FALSE
    /\ rclone_remote = FALSE
    /\ bundle_ova = FALSE
    /\ export_nfo = FALSE
    /\ current = << >>
    /\ sub_list = << >>
    /\ dirs = {}
    /\ nfo_files = {}
    /\ ops = << >>
    /\ warnings = << >>
    /\ pf_pc = "idle"

----------------------------------------------------------------------------
(* calculate_season_episode, anime_renamer.py:96-121 *)

EpisodeCounts == {None} \cup {Some(n) : n \in 0..MaxEp}

\* season.get('id', 0): the sort key of line 103
SeasonKey(s) == s.id

\* insert s behind every element whose key is <= its key (stable)
RECURSIVE InsertByKey(_, _)
InsertByKey(s, sorted) ==
    IF sorted = << >> THEN <<s>>
    ELSE IF SeasonKey(s) < SeasonKey(Head(sorted))
         THEN <<s>> \o sorted
         ELSE <<Head(sorted)>> \o InsertByKey(s, Tail(sorted))

\* sorted(season_data, key=lambda s: s.get('id', 0)): stable, ascending
RECURSIVE SortedSeasonsFrom(_, _)
SortedSeasonsFrom(data, acc) ==
    IF data = << >> THEN acc
    ELSE SortedSeasonsFrom(Tail(data), InsertByKey(Head(data), acc))

\* a plausible slip: the list is walked in the order it was passed in
SortedSeasonsUnsorted(data) == data

SortedSeasons(data) == SortedSeasonsFrom(data, << >>)

\* a plausible slip: an unknown-length season is skipped like an empty one
RECURSIVE WalkSeasonsSkipUnknown(_, _, _, _)
WalkSeasonsSkipUnknown(sorted_seasons, i, ep_offset, a) ==
    IF i > Len(sorted_seasons) THEN NoneNone
    ELSE LET num_episodes == sorted_seasons[i].episodes IN
         IF IsNone(num_episodes)
         THEN WalkSeasonsSkipUnknown(sorted_seasons, i + 1, ep_offset, a)
         ELSE IF a <= ep_offset + Val(num_episodes)
              THEN <<i, a - ep_offset>>
              ELSE WalkSeasonsSkipUnknown(sorted_seasons, i + 1,
                                          ep_offset + Val(num_episodes), a)

\* the other exhausted-seasons policy: wrap to season 1
RECURSIVE WalkSeasonsWrap(_, _, _, _)
WalkSeasonsWrap(sorted_seasons, i, ep_offset, a) ==
    IF i > Len(sorted_seasons) THEN <<1, a>>
    ELSE LET num_episodes == sorted_seasons[i].episodes IN
         IF IsNone(num_episodes)
         THEN IF a > ep_offset THEN <<i, a - ep_offset>> ELSE <<1, a>>
         ELSE IF a <= ep_offset + Val(num_episodes)
              THEN <<i, a - ep_offset>>
              ELSE WalkSeasonsWrap(sorted_seasons, i + 1,
                                   ep_offset + Val(num_episodes), a)

\* a plausible slip: the episodes of the earlier seasons are not taken off
RECURSIVE WalkSeasonsNoOffset(_, _, _, _)
WalkSeasonsNoOffset(sorted_seasons, i, ep_offset, a) ==
    IF i > Len(sorted_seasons) THEN NoneNone
    ELSE LET num_episodes == sorted_seasons[i].episodes IN
         IF IsNone(num_episodes)
         THEN IF a > ep_offset THEN <<i, a>> ELSE NoneNone
         ELSE IF a <= ep_offset + Val(num_episodes)
              THEN <<i, a>>
              ELSE WalkSeasonsNoOffset(sorted_seasons, i + 1,
                                       ep_offset + Val(num_episodes), a)

\* the for loop of lines 107-118 from 1-based position i with the running
\* ep_offset, and the fallback of line 121 when it ends or breaks
RECURSIVE WalkSeasons(_, _, _, _)
WalkSeasons(sorted_seasons, i, ep_offset, a) ==
    IF i > Len(sorted_seasons) THEN NoneNone
    ELSE LET num_episodes == sorted_seasons[i].episodes IN
         IF IsNone(num_episodes)
         THEN IF a > ep_offset THEN <<i, a - ep_offset>> ELSE NoneNone
         ELSE IF a <= ep_offset + Val(num_episodes)
              THEN <<i, a - ep_offset>>
              ELSE WalkSeasons(sorted_seasons, i + 1,
                               ep_offset + Val(num_episodes), a)

\* a plausible slip: the guard of line 100 only tests the season list
calculate_season_episode_NoEpisodeGuard(a, data) ==
    IF data = << >>
    THEN <<1, a>>
    ELSE WalkSeasons(SortedSeasons(data), 1, 0, a)

calculate_season_episode(a, data) ==
    IF data = << >> \/ a <= 0
    THEN <<1, a>>
    ELSE WalkSeasons(SortedSeasons(data), 1, 0, a)

----------------------------------------------------------------------------
(* Season lists: a list may name a season more than once (the resolver can *)
(* return one twice), and then with the same episode count.                *)

SeasonLists ==
    UNION { { [i \in 1..Len(ids) |-> [id |-> ids[i], episodes |-> eps[ids[i]]]]
              : ids \in SeqsUpTo(SeasonIds, MaxSeasons) }
            : eps \in [SeasonIds -> EpisodeCounts] }

AbsoluteEpisodes == (-1)..MaxAbs

----------------------------------------------------------------------------
(* get_anime_season_data, anilist_api.py:55-123, and the cache of cache.py *)

\* an edge of data['relations']['edges']: its relationType, and the format
\* and id of its node
RelationKinds ==
    { [relationType |-> "SEQUEL", format |-> "TV"],
      [relationType |-> "PREQUEL", format |-> "OVA"],
      [relationType |-> "SIDE_STORY", format |-> "TV"],
      [relationType |-> "SEQUEL", format |-> "MOVIE"] }

Edges(from) ==
    { [relationType |-> k.relationType, format |-> k.format, id |-> n]
      : k \in RelationKinds, n \in SeasonIds \ {from} }

\* the edge lists AniList may answer for an entry: each related entry once
EdgeLists(from) ==
    { es \in SeqsUpTo(Edges(from), MaxEdges) :
        \A i, j \in 1..Len(es) : i # j => es[i].id # es[j].id }

\* a plausible slip: the format of the related entry is not looked at
FollowedAnyFormat(edge) == edge.relationType \in {"SEQUEL", "PREQUEL"}

\* line 112
Followed(edge) ==
    /\ edge.relationType \in {"SEQUEL", "PREQUEL"}
    /\ edge.format \in {"TV", "OVA", "ONA"}

\* the edges AniList has answered so far
RECURSIVE KnownRelations(_)
KnownRelations(ids) ==
    IF ids = {} THEN 0
    ELSE LET n == CHOOSE m \in ids : TRUE IN
         (IF IsNone(relations[n]) THEN 0 ELSE Len(Val(relations[n])))
         + KnownRelations(ids \ {n})

\* lines 60-63: a cached list is returned when there is one and it is truthy
CacheHits(anime_id) ==
    /\ ~force_refresh
    /\ ~IsNone(cache[anime_id])
    /\ Val(cache[anime_id]) # << >>

\* a plausible slip: the failure of a call is not caught where it happens
\* and ends the whole traversal
DeliverPropagating(anime_id, value, rest, visited, queried) ==
    /\ last_return' = [id |-> anime_id, value |-> value,
                       visited |-> visited, queried |-> queried]
    /\ pending' = 0
    /\ IF rest = << >> \/ (queried /\ value = << >>)
       THEN /\ stack' = << >>
            /\ res_result' = value
            /\ res_pc' = "done"
       ELSE /\ stack' = [rest EXCEPT ![Len(rest)].seasons = @ \o value]
            /\ res_pc' = "loop"
            /\ UNCHANGED res_result

\* a call returns value: to its caller's seasons.extend (line 113) when
\* there is a caller in the frames rest, else to the program
Deliver(anime_id, value, rest, visited, queried) ==
    /\ last_return' = [id |-> anime_id, value |-> value,
                       visited |-> visited, queried |-> queried]
    /\ pending' = 0
    /\ IF rest = << >>
       THEN /\ stack' = rest
            /\ res_result' = value
            /\ res_pc' = "done"
       ELSE /\ stack' = [rest EXCEPT ![Len(rest)].seasons = @ \o value]
            /\ res_pc' = "loop"
            /\ UNCHANGED res_result

\* the program calls get_anime_season_data(anime_id, force_refresh): no
\* fetched_ids is passed, so the call makes a new set (lines 65-66)
StartTraversal ==
    /\ res_pc \in {"idle", "done"}
    /\ traversals < MaxTraversals
    /\ \E anime_id \in SeasonIds, force \in BOOLEAN :
          /\ pending' = anime_id
          /\ root_id' = anime_id
          /\ force_refresh' = force
    /\ failures' = {}
    /\ fetched_ids' = {}
    /\ res_pc' = "call"
    /\ traversals' = traversals + 1
    /\ last_return' = NoReturn
    /\ res_result' = << >>
    /\ UNCHANGED <<relations, cache, stack, mapVars, fs, uqVars, pfVars, sgVars>>

\* lines 59-63: the cached list is returned
ReturnCached ==
    /\ res_pc = "call"
    /\ CacheHits(pending)
    /\ Deliver(pending, Val(cache[pending]), stack,
               pending \in fetched_ids, FALSE)
    /\ UNCHANGED <<relations, cache, fetched_ids, force_refresh, traversals,
                   root_id, failures,
                   mapVars, fs, uqVars, pfVars, sgVars>>

\* lines 68-69: the id was fetched earlier in this traversal
ReturnFetched ==
    /\ res_pc = "call"
    /\ ~CacheHits(pending)
    /\ pending \in fetched_ids
    /\ Deliver(pending, << >>, stack, TRUE, FALSE)
    /\ UNCHANGED <<relations, cache, fetched_ids, force_refresh, traversals,
                   root_id, failures,
                   mapVars, fs, uqVars, pfVars, sgVars>>

\* lines 99-102 raise, lines 118-123 return []
QueryFails ==
    /\ res_pc = "call"
    /\ ~CacheHits(pending)
    /\ pending \notin fetched_ids
    /\ Deliver(pending, << >>, stack, FALSE, TRUE)
    /\ failures' = failures \cup {[id |-> pending, seasons |-> << >>]}
    /\ UNCHANGED <<relations, cache, fetched_ids, force_refresh, traversals,
                   root_id, mapVars, fs, uqVars, pfVars, sgVars>>

\* lines 99-106: the answer arrives, the id joins fetched_ids and the call
\* starts its list with its own entry
QuerySucceeds ==
    /\ res_pc = "call"
    /\ ~CacheHits(pending)
    /\ pending \notin fetched_ids
    /\ \E es \in EdgeLists(pending) :
          /\ IF IsNone(relations[pending])
             THEN KnownRelations(SeasonIds) + Len(es) <= MaxRelations
             ELSE relations[pending] = Some(es)
          /\ relations' = [relations EXCEPT ![pending] = Some(es)]
          /\ stack' = Append(stack, [id |-> pending, seasons |-> <<pending>>,
                                     edges |-> es])
    /\ fetched_ids' = fetched_ids \cup {pending}
    /\ pending' = 0
    /\ res_pc' = "loop"
    /\ UNCHANGED <<cache, force_refresh, res_result, last_return, traversals,
                   root_id, failures,
                   mapVars, fs, uqVars, pfVars, sgVars>>

\* lines 106-112 raise KeyError or TypeError on a malformed answer, lines
\* 121-123 return []: the call gives up what it gathered and nothing is
\* cached; it happens at line 106, before any edge, or at the next edge
ResponseMalformed ==
    /\ res_pc = "loop"
    /\ LET top == stack[Len(stack)] IN
          /\ top.edges # << >> \/ Val(relations[top.id]) = << >>
          /\ failures' = failures \cup {[id |-> top.id,
                                         seasons |-> top.seasons]}
          /\ Deliver(top.id, << >>, SubSeq(stack, 1, Len(stack) - 1),
                     FALSE, TRUE)
    /\ UNCHANGED <<relations, cache, fetched_ids, force_refresh, traversals,
                   root_id, mapVars, fs, uqVars, pfVars, sgVars>>

\* lines 108-113: the next edge qualifies, the call recurses into its node
FollowEdge ==
    /\ res_pc = "loop"
    /\ LET top == stack[Len(stack)] IN
          /\ top.edges # << >>
          /\ Followed(Head(top.edges))
          /\ pending' = Head(top.edges).id
          /\ stack' = [stack EXCEPT ![Len(stack)].edges = Tail(@)]
    /\ res_pc' = "call"
    /\ UNCHANGED <<relations, cache, fetched_ids, force_refresh, res_result,
                   last_return, traversals, root_id, failures,
                   mapVars, fs, uqVars, pfVars, sgVars>>

\* lines 108-112: the next edge does not qualify
SkipEdge ==
    /\ res_pc = "loop"
    /\ LET top == stack[Len(stack)] IN
          /\ top.edges # << >>
          /\ ~Followed(Head(top.edges))
          /\ stack' = [stack EXCEPT ![Len(stack)].edges = Tail(@)]
    /\ UNCHANGED <<relations, cache, fetched_ids, pending, force_refresh,
                   res_result, res_pc, last_return, traversals, root_id, failures,
                   mapVars, fs, uqVars, pfVars, sgVars>>

\* lines 115-116: the edges are done, the list is cached and returned
ReturnSeasons ==
    /\ res_pc = "loop"
    /\ LET top == stack[Len(stack)] IN
          /\ top.edges = << >>
          /\ cache' = [cache EXCEPT ![top.id] = Some(top.seasons)]
          /\ Deliver(top.id, top.seasons, SubSeq(stack, 1, Len(stack) - 1),
                     FALSE, TRUE)
    /\ UNCHANGED <<relations, fetched_ids, force_refresh, traversals, root_id, failures,
                   mapVars, fs, uqVars, pfVars, sgVars>>

\* cache.py:46-50: an entry older than the cache duration is no longer
\* returned (time passes between the program's runs)
CacheExpires ==
    /\ res_pc \in {"idle", "done"}
    /\ \E anime_id \in SeasonIds :
          /\ ~IsNone(cache[anime_id])
          /\ cache' = [cache EXCEPT ![anime_id] = None]
    /\ UNCHANGED <<relations, fetched_ids, stack, pending, force_refresh,
                   res_result, res_pc, last_return, traversals, root_id, failures,
                   mapVars, fs, uqVars, pfVars, sgVars>>

----------------------------------------------------------------------------
(* File names and paths.  A name is the text before the extension (stem),  *)
(* the _vN suffixes appended to it, and the extension.  A stem is either   *)
(* the text the rename template yields for a season and episode, followed  *)
(* by the language tag, or some other text (raw), which may hold a tag.    *)

Extensions == {".mkv", ".mp4", ".srt", ".ass"}

\* anime_renamer.py:24-25
VIDEO_EXTENSIONS == {".mkv", ".mp4"}
SUBTITLE_EXTENSIONS == {".srt", ".ass"}

\* f"{base}_v{version}{ext}" with base, ext = os.path.splitext(filepath)
WithVersion(filepath, version) ==
    [filepath EXCEPT !.name.sfx = Append(@, version)]

\* a plausible slip: the first free version is not searched for
RECURSIVE FirstFreeVersionNoSearch(_, _, _)
FirstFreeVersionNoSearch(existing, filepath, version) ==
    WithVersion(filepath, version)

\* the while loop of lines 141-145 (and 161-165)
RECURSIVE FirstFreeVersion(_, _, _)
FirstFreeVersion(existing, filepath, version) ==
    LET new_filepath == WithVersion(filepath, version) IN
    IF new_filepath \notin existing
    THEN new_filepath
    ELSE FirstFreeVersion(existing, filepath, version + 1)

\* anime_renamer.py:132-145; existing is what os.path.exists answers
get_unique_filepath(existing, filepath) ==
    IF filepath \notin existing
    THEN filepath
    ELSE FirstFreeVersion(existing, filepath, 2)

\* the file names of one remote directory
rclone_lsf(existing, dir_path) ==
    {p.name : p \in {q \in existing : q.dir = dir_path}}

\* anime_renamer.py:147-165: the names are looked up in the listing of the
\* path's directory, the result is joined to that directory again
get_unique_rclone_filepath(existing, filepath) ==
    LET dir_path == filepath.dir
        existing_files == rclone_lsf(existing, dir_path)
        listed == {[dir |-> dir_path, name |-> n] : n \in existing_files}
    IN IF filepath.name \notin existing_files
       THEN filepath
       ELSE FirstFreeVersion(listed, filepath, 2)

----------------------------------------------------------------------------
(* process_folder, anime_renamer.py:189-325.  The files of a folder belong *)
(* to one show: its title is the same text in every generated name and is  *)
(* left out of the names.                                                  *)

\* what anitopy.parse returns of a file name: episode_number is absent, is
\* not a number (None, '') or is digits; anime_season is None or digits;
\* anime_type is a text, empty when there is none
EpisodeAbsent == [kind |-> "absent", n |-> 0]
EpisodeInvalid == [kind |-> "invalid", n |-> 0]
EpisodeDigits(n) == [kind |-> "digits", n |-> n]

\* str.lower() on the texts of the model
Lower(text) ==
    CASE text = "OVA" -> "ova"
      [] text = "Special" -> "special"
      [] text = "ENG" -> "eng"
      [] text = "JPN" -> "jpn"
      [] OTHER -> text

\* int(parsed.get('episode_number', default)), lines 206 and 284: None
\* stands for the ValueError or TypeError that int raises
EpisodeNumber(parsed, default) ==
    CASE parsed.episode_number.kind = "absent" -> Some(default)
      [] parsed.episode_number.kind = "digits" -> Some(parsed.episode_number.n)
      [] OTHER -> None

\* lines 217-233: the season and episode of the file of the outer loop,
\* NoneNone when the season cannot be inferred
ResolveSeasonEpisode(parsed, abs_episode, data) ==
    IF parsed.anime_type # ""
       /\ Lower(parsed.anime_type) \in {"ova", "special"}
    THEN <<0, abs_episode>>
    ELSE IF ~IsNone(parsed.anime_season)
         THEN <<Val(parsed.anime_season), abs_episode>>
         ELSE IF data # << >>
              THEN calculate_season_episode(abs_episode, data)
              ELSE <<1, abs_episode>>

\* lines 123-130: the tag of the name, lower-cased, "" when there is none
get_language_tag(name) ==
    IF Lower(name.stem.lang) \in {"eng", "jpn"}
    THEN Lower(name.stem.lang)
    ELSE ""

\* conf['rename_template'].format(...) followed by the language tag
TemplatedStem(season, episode, language_tag) ==
    [kind |-> "tpl", season |-> season, episode |-> episode, raw |-> 0,
     lang |-> language_tag]

\* lines 248 and 290, joined to dest_folder of lines 251/256 and 293/298
Candidate(season, episode, source) ==
    [dir |-> IF bundle_ova /\ season = 0 THEN "S00_OVAs" ELSE "folder",
     name |-> [stem |-> TemplatedStem(season, episode,
                                      get_language_tag(source.name)),
               sfx |-> << >>,
               ext |-> source.name.ext]]

\* lines 259-262 and 301-304: the free variant of the candidate, looked up
\* on the remote or on the local disk
UniqueDestination(candidate) ==
    IF rclone_remote
    THEN get_unique_rclone_filepath(fs, candidate)
    ELSE get_unique_filepath(fs, candidate)

\* os.path.splitext(new_path)[0] + ".nfo", lines 277 and 320
NfoPath(new_path) == [new_path EXCEPT !.name.ext = ".nfo"]

\* what can become of a printed rename: nothing in a dry run; os.rename
\* succeeds or raises OSError; rclone moveto succeeds, or fails and copyto
\* succeeds and delete succeeds or fails, or copyto fails too
Outcomes ==
    IF dry_run THEN {"dry"}
    ELSE IF rclone_remote
         THEN {"moved", "copied_deleted", "copied_kept", "failed"}
         ELSE {"renamed", "failed"}

Storage(existing, source, dest, outcome) ==
    CASE outcome \in {"renamed", "moved", "copied_deleted"} ->
            (existing \ {source}) \cup {dest}
      [] outcome = "copied_kept" -> existing \cup {dest}
      [] OTHER -> existing

\* the order of Python's sorted on the path texts: the stems first (the
\* templated ones by season and episode, then the other texts), then what
\* follows the stem: " [eng]" < " [jpn]" < ".ass" < ".mkv" < ".mp4" <
\* ".srt" < "_v2" < "_v3"
ExtensionRank(ext) ==
    CASE ext = ".ass" -> 3
      [] ext = ".mkv" -> 4
      [] ext = ".mp4" -> 5
      [] ext = ".nfo" -> 6
      [] OTHER -> 7

PathKey(path) ==
    <<IF path.name.stem.kind = "tpl" THEN 0 ELSE 1,
      path.name.stem.season, path.name.stem.episode, path.name.stem.raw>>
    \o (CASE path.name.stem.lang = "" -> << >>
          [] path.name.stem.lang = "ENG" -> <<0>>
          [] path.name.stem.lang = "eng" -> <<1>>
          [] OTHER -> <<2>>)
    \o [i \in 1..Len(path.name.sfx) |-> 10 + path.name.sfx[i]]
    \o <<ExtensionRank(path.name.ext)>>

RECURSIVE KeyLess(_, _)
KeyLess(a, b) ==
    IF a = << >> THEN b # << >>
    ELSE IF b = << >> THEN FALSE
    ELSE IF Head(a) # Head(b) THEN Head(a) < Head(b)
    ELSE KeyLess(Tail(a), Tail(b))

RECURSIVE InsertByPath(_, _)
InsertByPath(f, sorted) ==
    IF sorted = << >> THEN <<f>>
    ELSE IF KeyLess(PathKey(f.path), PathKey(Head(sorted).path))
         THEN <<f>> \o sorted
         ELSE <<Head(sorted)>> \o InsertByPath(f, Tail(sorted))

\* sorted(files['videos'] + files['subtitles']), line 193
RECURSIVE SortedFiles(_)
SortedFiles(files) ==
    IF files = << >> THEN << >>
    ELSE InsertByPath(Head(files), SortedFiles(Tail(files)))

\* a plausible slip: the consumed file is left in the list
RemoveFirstKeeping(files, f) == files

\* list.remove: the first element equal to f is taken out
RECURSIVE RemoveFirst(_, _)
RemoveFirst(files, f) ==
    IF files = << >> THEN << >>
    ELSE IF Head(files) = f THEN Tail(files)
    ELSE <<Head(files)>> \o RemoveFirst(Tail(files), f)

IsVideo(f) == f.path.name.ext \in VIDEO_EXTENSIONS
IsSubtitle(f) == f.path.name.ext \in SUBTITLE_EXTENSIONS

\* the file of this iteration of the loop of line 201
ThisFile == all_files[file_index]

AtFile == pf_pc = "file" /\ file_index <= Len(all_files)

\* line 244: the entry of files['videos'] with the name of this file
HasVideoFile(f) == \E i \in 1..Len(videos) : videos[i].path.name = f.path.name

NextFile ==
    /\ file_index' = file_index + 1
    /\ pf_pc' = "file"

\* lines 221-226: the season of the file of the outer loop is asked of
\* calculate_season_episode
AsksSeasonData(parsed, data) ==
    /\ ~(parsed.anime_type # ""
         /\ Lower(parsed.anime_type) \in {"ova", "special"})
    /\ IsNone(parsed.anime_season)
    /\ data # << >>

\* a call of rclone_handler and what it returned
Call(cmd, ok) == [cmd |-> cmd, ok |-> ok]

\* a plausible slip: a failed copy is followed by the delete all the same
CallsDeletingAnyway(outcome) ==
    CASE outcome = "moved" -> <<Call("moveto", TRUE)>>
      [] outcome = "copied_deleted" ->
            <<Call("moveto", FALSE), Call("copyto", TRUE),
              Call("delete", TRUE)>>
      [] outcome = "copied_kept" ->
            <<Call("moveto", FALSE), Call("copyto", TRUE),
              Call("delete", FALSE)>>
      [] outcome = "failed" /\ rclone_remote ->
            <<Call("moveto", FALSE), Call("copyto", FALSE),
              Call("delete", FALSE)>>
      [] outcome = "failed" -> <<Call("rename", FALSE)>>
      [] outcome = "renamed" -> <<Call("rename", TRUE)>>
      [] OTHER -> << >>

\* lines 265-274 (and 307-316): the calls made for one file, in order, with
\* what each returned; os.rename raising OSError counts as not ok
Calls(outcome) ==
    CASE outcome = "moved" -> <<Call("moveto", TRUE)>>
      [] outcome = "copied_deleted" ->
            <<Call("moveto", FALSE), Call("copyto", TRUE),
              Call("delete", TRUE)>>
      [] outcome = "copied_kept" ->
            <<Call("moveto", FALSE), Call("copyto", TRUE),
              Call("delete", FALSE)>>
      [] outcome = "failed" /\ rclone_remote ->
            <<Call("moveto", FALSE), Call("copyto", FALSE)>>
      [] outcome = "failed" -> <<Call("rename", FALSE)>>
      [] outcome = "renamed" -> <<Call("rename", TRUE)>>
      [] OTHER -> << >>

\* a plausible slip: the failure of a rename is not caught and ends the run
AfterRenameRaising(outcome, pc) ==
    IF outcome = "failed" THEN "raised" ELSE pc

\* lines 271-274 (and 313-316), and the False that rclone_handler returns:
\* whatever became of the rename, process_folder goes on at pc
AfterRename(outcome, pc) == pc

\* the record of one printed rename: the file, the name the template yields,
\* the path it is given, whether calculate_season_episode gave the season
\* of the file, and what became of it
Operation(kind, f, abs_episode, mapped, candidate, dest, outcome) ==
    [kind |-> kind, src |-> f.path, absolute_episode |-> abs_episode,
     mapped |-> mapped, candidate |-> candidate, dst |-> dest,
     outcome |-> outcome, calls |-> Calls(outcome)]

\* lines 205-209: int() raises, the file is skipped with a warning
SkipUnparsedEpisode ==
    /\ AtFile
    /\ IsNone(EpisodeNumber(ThisFile.parsed, 0))
    /\ warnings' = Append(warnings, [what |-> "episode", path |-> ThisFile.path])
    /\ NextFile
    /\ UNCHANGED <<videos, subtitles, all_files, processed_episodes, dry_run,
                   rclone_remote, bundle_ova, export_nfo, current, sub_list,
                   dirs, nfo_files, ops, fs,
                   mapVars, resVars, uqVars, sgVars>>

\* lines 214-215: the episode of the show was processed before
SkipProcessedEpisode ==
    /\ AtFile
    /\ ~IsNone(EpisodeNumber(ThisFile.parsed, 0))
    /\ Val(EpisodeNumber(ThisFile.parsed, 0)) \in processed_episodes
    /\ NextFile
    /\ UNCHANGED <<videos, subtitles, all_files, processed_episodes, dry_run,
                   rclone_remote, bundle_ova, export_nfo, current, sub_list,
                   dirs, nfo_files, ops, warnings, fs,
                   mapVars, resVars, uqVars, sgVars>>

\* the file passed lines 205-215 and absolute_episode is its number
Proceeds(abs_episode) ==
    /\ AtFile
    /\ EpisodeNumber(ThisFile.parsed, 0) = Some(abs_episode)
    /\ abs_episode \notin processed_episodes

\* lines 227-230: no season can be inferred, the file is skipped
SkipUnresolvedSeason ==
    /\ \E abs_episode \in AbsoluteEpisodes :
          /\ Proceeds(abs_episode)
          /\ ~Resolved(ResolveSeasonEpisode(ThisFile.parsed, abs_episode,
                                            season_data))
    /\ warnings' = Append(warnings, [what |-> "season", path |-> ThisFile.path])
    /\ NextFile
    /\ UNCHANGED <<videos, subtitles, all_files, processed_episodes, dry_run,
                   rclone_remote, bundle_ova, export_nfo, current, sub_list,
                   dirs, nfo_files, ops, fs,
                   mapVars, resVars, uqVars, sgVars>>

\* lines 244-278: this file has a video; the destination folder is made
\* (locally, dry run or not), the rename is printed and, unless it is a dry
\* run, carried out; the nfo file is written, dry run or not
RenameVideo ==
    /\ \E abs_episode \in AbsoluteEpisodes :
          LET r == ResolveSeasonEpisode(ThisFile.parsed, abs_episode,
                                        season_data)
          IN /\ Proceeds(abs_episode)
             /\ Resolved(r)
             /\ HasVideoFile(ThisFile)
             /\ LET candidate == Candidate(r[1], r[2], ThisFile.path)
                    dest == UniqueDestination(candidate)
                IN /\ dirs' = IF rclone_remote THEN dirs
                                               ELSE dirs \cup {candidate.dir}
                   /\ \E outcome \in Outcomes :
                         /\ ops' = Append(ops,
                                      Operation("video", ThisFile, abs_episode,
                                          AsksSeasonData(ThisFile.parsed,
                                                         season_data),
                                          candidate, dest, outcome))
                         /\ fs' = Storage(fs, ThisFile.path, dest, outcome)
                         /\ pf_pc' = AfterRename(outcome, "subs")
                   /\ nfo_files' = IF export_nfo
                                   THEN nfo_files \cup {NfoPath(dest)}
                                   ELSE nfo_files
             /\ current' = [season |-> r[1], episode |-> r[2],
                            absolute_episode |-> abs_episode,
                            video_file |-> TRUE]
    /\ sub_list' = subtitles
    /\ UNCHANGED <<videos, subtitles, all_files, file_index,
                   processed_episodes, dry_run, rclone_remote, bundle_ova,
                   export_nfo, warnings,
                   mapVars, resVars, uqVars, sgVars>>

\* line 244 finds no video of this name: straight to the subtitles
NoVideoFile ==
    /\ \E abs_episode \in AbsoluteEpisodes :
          LET r == ResolveSeasonEpisode(ThisFile.parsed, abs_episode,
                                        season_data)
          IN /\ Proceeds(abs_episode)
             /\ Resolved(r)
             /\ ~HasVideoFile(ThisFile)
             /\ current' = [season |-> r[1], episode |-> r[2],
                            absolute_episode |-> abs_episode,
                            video_file |-> FALSE]
    /\ sub_list' = subtitles
    /\ pf_pc' = "subs"
    /\ UNCHANGED <<videos, subtitles, all_files, file_index,
                   processed_episodes, dry_run, rclone_remote, bundle_ova,
                   export_nfo, dirs, nfo_files, ops, warnings, fs,
                   mapVars, resVars, uqVars, sgVars>>

\* the subtitle of this iteration of the loop of line 281 over the copy of
\* files['subtitles']
AtSubtitle == pf_pc = "subs" /\ sub_list # << >>

\* lines 284 and 323-324: int() raises, the subtitle is passed over
SubtitleUnparsed ==
    /\ AtSubtitle
    /\ IsNone(EpisodeNumber(Head(sub_list).parsed, -1))
    /\ sub_list' = Tail(sub_list)
    /\ UNCHANGED <<videos, subtitles, all_files, file_index,
                   processed_episodes, dry_run, rclone_remote, bundle_ova,
                   export_nfo, current, dirs, nfo_files, ops, warnings,
                   pf_pc, fs,
                   mapVars, resVars, uqVars, sgVars>>

\* lines 285-287: the season and episode of a subtitle always come from
\* calculate_season_episode
SubtitleSeasonEpisode(sub) ==
    calculate_season_episode(Val(EpisodeNumber(sub.parsed, -1)), season_data)

\* line 287 is false: the subtitle is of another episode
SubtitleOfOtherEpisode ==
    /\ AtSubtitle
    /\ ~IsNone(EpisodeNumber(Head(sub_list).parsed, -1))
    /\ SubtitleSeasonEpisode(Head(sub_list))
          # <<current.season, current.episode>>
    /\ sub_list' = Tail(sub_list)
    /\ UNCHANGED <<videos, subtitles, all_files, file_index,
                   processed_episodes, dry_run, rclone_remote, bundle_ova,
                   export_nfo, current, dirs, nfo_files, ops, warnings,
                   pf_pc, fs,
                   mapVars, resVars, uqVars, sgVars>>

\* lines 288-321: the subtitle is of this episode; it is renamed as the
\* video is, taken out of files['subtitles'], and the nfo file is written
\* when the episode has no video
RenameSubtitle ==
    /\ AtSubtitle
    /\ ~IsNone(EpisodeNumber(Head(sub_list).parsed, -1))
    /\ SubtitleSeasonEpisode(Head(sub_list))
          = <<current.season, current.episode>>
    /\ LET sub == Head(sub_list)
           candidate == Candidate(current.season, current.episode, sub.path)
           dest == UniqueDestination(candidate)
       IN /\ dirs' = IF rclone_remote THEN dirs
                                      ELSE dirs \cup {candidate.dir}
          /\ \E outcome \in Outcomes :
                /\ ops' = Append(ops,
                             Operation("subtitle", sub,
                                 Val(EpisodeNumber(sub.parsed, -1)), TRUE,
                                 candidate, dest, outcome))
                /\ fs' = Storage(fs, sub.path, dest, outcome)
                /\ pf_pc' = AfterRename(outcome, pf_pc)
          /\ subtitles' = RemoveFirst(subtitles, sub)
          /\ nfo_files' = IF export_nfo /\ ~current.video_file
                          THEN nfo_files \cup {NfoPath(dest)}
                          ELSE nfo_files
    /\ sub_list' = Tail(sub_list)
    /\ UNCHANGED <<videos, all_files, file_index, processed_episodes,
                   dry_run, rclone_remote, bundle_ova, export_nfo, current,
                   warnings,
                   mapVars, resVars, uqVars, sgVars>>

\* line 325, after the loop over the subtitles
MarkProcessed ==
    /\ pf_pc = "subs"
    /\ sub_list = << >>
    /\ processed_episodes' = processed_episodes \cup {current.absolute_episode}
    /\ NextFile
    /\ UNCHANGED <<videos, subtitles, all_files, dry_run, rclone_remote,
                   bundle_ova, export_nfo, current, sub_list, dirs,
                   nfo_files, ops, warnings, fs,
                   mapVars, resVars, uqVars, sgVars>>

\* the loop of line 201 is over
ProcessFolderReturns ==
    /\ pf_pc = "file"
    /\ file_index > Len(all_files)
    /\ pf_pc' = "done"
    /\ UNCHANGED <<videos, subtitles, all_files, file_index,
                   processed_episodes, dry_run, rclone_remote, bundle_ova,
                   export_nfo, current, sub_list, dirs, nfo_files, ops,
                   warnings, fs,
                   mapVars, resVars, uqVars, sgVars>>

----------------------------------------------------------------------------
(* The matcher of renamer.py: process_show_group_local, lines 111-143, and *)
(* process_show_group_rclone, lines 207-239.  A file of the group is what  *)
(* parse_filename returns: its path (original_filename, whose extension is *)
(* 'extension'), season, episode and is_video.                             *)

\* the key of sorted(..., key=lambda x: (x['season'], x['episode'])), or of
\* key=lambda x: x['episode']
GroupKey(f, episode_only) ==
    IF episode_only THEN <<f.episode>> ELSE <<f.season, f.episode>>

\* insert f behind every element whose key is <= its key (stable)
RECURSIVE InsertByGroupKey(_, _, _)
InsertByGroupKey(f, sorted, episode_only) ==
    IF sorted = << >> THEN <<f>>
    ELSE IF KeyLess(GroupKey(f, episode_only),
                    GroupKey(Head(sorted), episode_only))
         THEN <<f>> \o sorted
         ELSE <<Head(sorted)>> \o InsertByGroupKey(f, Tail(sorted),
                                                  episode_only)

RECURSIVE SortedGroupFrom(_, _, _)
SortedGroupFrom(files, acc, episode_only) ==
    IF files = << >> THEN acc
    ELSE SortedGroupFrom(Tail(files),
                         InsertByGroupKey(Head(files), acc, episode_only),
                         episode_only)

\* Python's sorted: stable, ascending
SortedGroup(files, episode_only) == SortedGroupFrom(files, << >>, episode_only)

\* a plausible slip: the unmatched videos are paired in the order they are in
SortedVideosAsFound(unmatched) == unmatched

\* line 125 (and 221)
SortedVideosByEpisode(unmatched) == SortedGroup(unmatched, TRUE)

IsGroupVideo(f) == f.is_video
IsGroupSubtitle(f) == ~f.is_video

\* lines 92-95: the highest episode of each season among the videos
EpisodesPerSeason(files, season) ==
    LET eps == {files[i].episode : i \in {j \in 1..Len(files) :
                                            files[j].season = season}}
    IN IF eps = {} THEN 0
       ELSE CHOOSE e \in eps : \A d \in eps : d <= e

\* lines 96-100: a season of the videos starts after the highest episodes
\* of the seasons of the videos before it; the result is a function on the
\* seasons that occur
RECURSIVE TotalBefore(_, _)
TotalBefore(files, season) ==
    IF season <= 0 THEN 0
    ELSE TotalBefore(files, season - 1) + EpisodesPerSeason(files, season - 1)

calculate_season_offsets(files) ==
    [season \in {files[i].season : i \in 1..Len(files)}
        |-> TotalBefore(files, season)]

\* line 103: offsets.get(video['season'], 0) + video['episode']
AbsoluteEpisodeNum(video, offsets) ==
    (IF video.season \in DOMAIN offsets THEN offsets[video.season] ELSE 0)
    + video.episode

IsExact(video, sub) ==
    sub.season = video.season /\ sub.episode = video.episode

\* line 106
IsAbsolute(video, sub, offsets) ==
    sub.season = 1 /\ sub.episode = AbsoluteEpisodeNum(video, offsets)

\* lines 102-107: the first subtitle of the pool that passes either test,
\* None when there is none
RECURSIVE find_smart_match(_, _, _)
find_smart_match(video, subs, offsets) ==
    IF subs = << >> THEN None
    ELSE IF IsExact(video, Head(subs)) \/ IsAbsolute(video, Head(subs), offsets)
         THEN Some(Head(subs))
         ELSE find_smart_match(video, Tail(subs), offsets)

\* a plausible slip: the counts are not compared, zip pairs what it can
RelativeMatchWhenever(unmatched, subs) ==
    Len(unmatched) > 0 /\ Len(subs) > 0

\* line 123 (and 219)
RelativeMatchApplies(unmatched, subs) ==
    Len(unmatched) > 0 /\ Len(unmatched) = Len(subs)

\* lines 130-133: the new path of f next to its old one, named after the
\* season and episode of the subtitle of the pair
NewGroupPath(f, sub_match) ==
    [f.path EXCEPT !.name.stem = TemplatedStem(sub_match.season,
                                               sub_match.episode, ""),
                   !.name.sfx = << >>]

\* the state of the other parts of the program
OtherVars == <<mapVars, resVars, uqVars, pfVars>>

\* line 114 (and 210): a group without videos returns at once
ReturnNoVideos ==
    /\ group_pc = "match"
    /\ group_videos = << >>
    /\ unmatched_report' = << >>
    /\ group_pc' = "done"
    /\ UNCHANGED <<group_files, remote, group_videos, pool, season_offsets,
                   video_index, unmatched_videos, matches, sorted_videos,
                   sorted_subtitles, renamed_files, group_ops, fs, OtherVars>>

\* the video of this iteration of the loop of line 117 (and 213)
AtVideo ==
    /\ group_pc = "match"
    /\ group_videos # << >>
    /\ video_index <= Len(group_videos)

\* lines 118-120: a match is found and taken out of the pool
SmartMatchFound ==
    /\ AtVideo
    /\ LET video == group_videos[video_index]
           match == find_smart_match(video, pool, season_offsets)
       IN /\ ~IsNone(match)
          /\ pool' = RemoveFirst(pool, Val(match))
          /\ matches' = Append(matches,
                           [video |-> video, sub |-> Val(match),
                            tier |-> IF IsExact(video, Val(match))
                                     THEN "exact" ELSE "absolute",
                            pool |-> pool])
    /\ video_index' = video_index + 1
    /\ UNCHANGED <<group_files, remote, group_videos, season_offsets,
                   unmatched_videos, sorted_videos, sorted_subtitles,
                   renamed_files, unmatched_report, group_ops, group_pc, fs,
                   OtherVars>>

\* lines 121-122: no match, the video joins unmatched_videos
SmartMatchNone ==
    /\ AtVideo
    /\ IsNone(find_smart_match(group_videos[video_index], pool,
                               season_offsets))
    /\ unmatched_videos' = Append(unmatched_videos,
                                  group_videos[video_index])
    /\ video_index' = video_index + 1
    /\ UNCHANGED <<group_files, remote, group_videos, pool, season_offsets,
                   matches, sorted_videos, sorted_subtitles, renamed_files,
                   unmatched_report, group_ops, group_pc, fs, OtherVars>>

AfterVideos ==
    /\ group_pc = "match"
    /\ group_videos # << >>
    /\ video_index > Len(group_videos)

\* lines 123-127 (and 219-223): the relative match is entered
StartRelativeMatch ==
    /\ AfterVideos
    /\ RelativeMatchApplies(unmatched_videos, pool)
    /\ sorted_videos' = SortedVideosByEpisode(unmatched_videos)
    /\ sorted_subtitles' = SortedGroup(pool, FALSE)
    /\ group_pc' = "relative"
    /\ UNCHANGED <<group_files, remote, group_videos, pool, season_offsets,
                   video_index, unmatched_videos, matches, renamed_files,
                   unmatched_report, group_ops, fs, OtherVars>>

\* lines 141-142 (and 237-238): the unmatched videos are returned as such
ReportUnmatched ==
    /\ AfterVideos
    /\ ~RelativeMatchApplies(unmatched_videos, pool)
    /\ unmatched_report' = [i \in 1..Len(unmatched_videos)
                               |-> unmatched_videos[i].path]
    /\ group_pc' = "done"
    /\ UNCHANGED <<group_files, remote, group_videos, pool, season_offsets,
                   video_index, unmatched_videos, matches, sorted_videos,
                   sorted_subtitles, renamed_files, group_ops, fs, OtherVars>>

\* one rename of lines 134-139, or of lines 230-235 through
\* rename_rclone_file: nothing when the file bears the name already; else
\* the attempt, which may fail.  os.rename's failure is logged and the pair
\* is not reported; rename_rclone_file logs its own failure and the pair
\* is reported all the same.
GroupRename(old_path, new_path, outcome) ==
    IF old_path = new_path
    THEN [ops |-> << >>, renamed |-> << >>]
    ELSE [ops |-> <<[src |-> old_path, dst |-> new_path,
                     outcome |-> outcome]>>,
          renamed |-> IF remote \/ outcome = "renamed"
                      THEN <<<<old_path, new_path>>>> ELSE << >>]

GroupStorage(existing, old_path, new_path, outcome) ==
    IF old_path # new_path /\ outcome = "renamed"
    THEN (existing \ {old_path}) \cup {new_path}
    ELSE existing

\* lines 128-139 (and 224-235): the next video and the next subtitle of
\* the zip are paired, and each is renamed after the subtitle's numbers
RelativePair ==
    /\ group_pc = "relative"
    /\ sorted_videos # << >>
    /\ sorted_subtitles # << >>
    /\ LET video == Head(sorted_videos)
           sub_match == Head(sorted_subtitles)
           new_video_path == NewGroupPath(video, sub_match)
           new_sub_path == NewGroupPath(sub_match, sub_match)
       IN /\ matches' = Append(matches,
                           [video |-> video, sub |-> sub_match,
                            tier |-> "relative", pool |-> pool])
          /\ \E video_outcome, sub_outcome \in {"renamed", "failed"} :
                LET v == GroupRename(video.path, new_video_path,
                                     video_outcome)
                    t == GroupRename(sub_match.path, new_sub_path,
                                     sub_outcome)
                IN /\ group_ops' = group_ops \o v.ops \o t.ops
                   /\ renamed_files' = renamed_files \o v.renamed
                                                     \o t.renamed
                   /\ fs' = GroupStorage(
                               GroupStorage(fs, video.path, new_video_path,
                                            video_outcome),
                               sub_match.path, new_sub_path, sub_outcome)
    /\ sorted_videos' = Tail(sorted_videos)
    /\ sorted_subtitles' = Tail(sorted_subtitles)
    /\ UNCHANGED <<group_files, remote, group_videos, pool, season_offsets,
                   video_index, unmatched_videos, unmatched_report, group_pc,
                   OtherVars>>

\* line 140 (and 236): the videos the zip did not reach stay unmatched
FinishRelativeMatch ==
    /\ group_pc = "relative"
    /\ sorted_videos = << >> \/ sorted_subtitles = << >>
    /\ unmatched_report' =
          LET newly_matched_videos ==
                 {matches[i].video : i \in {j \in 1..Len(matches) :
                                               matches[j].tier = "relative"}}
              left == SelectSeq(unmatched_videos,
                                LAMBDA v : v \notin newly_matched_videos)
          IN [i \in 1..Len(left) |-> left[i].path]
    /\ group_pc' = "done"
    /\ UNCHANGED <<group_files, remote, group_videos, pool, season_offsets,
                   video_index, unmatched_videos, matches, sorted_videos,
                   sorted_subtitles, renamed_files, group_ops, fs, OtherVars>>

----------------------------------------------------------------------------
(* The mapper on its own: one call on drawn inputs *)

MapInit ==
    /\ season_data \in SeasonLists
    /\ absolute_episode \in AbsoluteEpisodes
    /\ map_result = NoneNone
    /\ map_pc = "call"
    /\ ResIdle
    /\ fs = {}
    /\ UqIdle
    /\ PfIdle
    /\ SgIdle

CalculateSeasonEpisode ==
    /\ map_pc = "call"
    /\ map_result' = calculate_season_episode(absolute_episode, season_data)
    /\ map_pc' = "done"
    /\ UNCHANGED <<season_data, absolute_episode, resVars, fs, uqVars, pfVars, sgVars>>

MapNext == CalculateSeasonEpisode

SpecMap == MapInit /\ [][MapNext]_vars

----------------------------------------------------------------------------
(* The resolver on its own: traversals over what AniList answers *)

ResInit == ResIdle /\ MapIdle /\ fs = {} /\ UqIdle /\ PfIdle /\ SgIdle

ResNext ==
    \/ StartTraversal
    \/ ReturnCached
    \/ ReturnFetched
    \/ QueryFails
    \/ QuerySucceeds
    \/ ResponseMalformed
    \/ FollowEdge
    \/ SkipEdge
    \/ ReturnSeasons
    \/ CacheExpires

SpecResolve == ResInit /\ [][ResNext]_vars

----------------------------------------------------------------------------
(* get_unique_filepath on its own: one call on a drawn set of files *)

Directories == {"folder", "S00_OVAs"}

\* the stem of the names tried here: the template's text for S01E01
ProbeStem == [kind |-> "tpl", season |-> 1, episode |-> 1, raw |-> 0,
              lang |-> ""]

ProbePaths(maxSuffixes) ==
    { [dir |-> d, name |-> [stem |-> ProbeStem, sfx |-> v, ext |-> ".mkv"]]
      : d \in Directories, v \in SeqsUpTo(2..MaxVersion, maxSuffixes) }

RECURSIVE SubsetsUpTo(_, _)
SubsetsUpTo(S, n) ==
    IF n = 0 THEN {{}}
    ELSE LET smaller == SubsetsUpTo(S, n - 1) IN
         smaller \cup {T \cup {x} : T \in smaller, x \in S}

UqInit ==
    /\ fs \in SubsetsUpTo(ProbePaths(2), MaxExisting)
    /\ uq_path \in ProbePaths(1)
    /\ uq_result = << >>
    /\ uq_pc = "call"
    /\ MapIdle
    /\ ResIdle
    /\ PfIdle
    /\ SgIdle

GetUniqueFilepath ==
    /\ uq_pc = "call"
    /\ uq_result' = get_unique_filepath(fs, uq_path)
    /\ uq_pc' = "local"
    /\ UNCHANGED <<uq_path, fs, mapVars, resVars, pfVars, sgVars>>

GetUniqueRcloneFilepath ==
    /\ uq_pc = "call"
    /\ uq_result' = get_unique_rclone_filepath(fs, uq_path)
    /\ uq_pc' = "remote"
    /\ UNCHANGED <<uq_path, fs, mapVars, resVars, pfVars, sgVars>>

UqNext == GetUniqueFilepath \/ GetUniqueRcloneFilepath

SpecUnique == UqInit /\ [][UqNext]_vars

----------------------------------------------------------------------------
(* One run of process_folder over a folder of drawn files *)

\* the season data of the show of the folder: the ids are the positions
FolderSeasonLists ==
    { d \in SeqsUpTo([id : 1..MaxFolderSeasons,
                      episodes : {None} \cup {Some(n) : n \in 1..MaxFolderEp}],
                     MaxFolderSeasons)
      : \A i \in 1..Len(d) : d[i].id = i }

FolderPath(stem, ext) ==
    [dir |-> "folder", name |-> [stem |-> stem, sfx |-> << >>, ext |-> ext]]

FolderExtensions == {".mkv", ".srt"}

\* what anitopy.parse finds in the names that are not the template's
ParsedNames ==
    [episode_number : {EpisodeAbsent, EpisodeInvalid}
                      \cup {EpisodeDigits(n) : n \in 1..MaxFolderAbs},
     anime_season : {None},
     anime_type : {""}]
    \cup
    [episode_number : {EpisodeDigits(n) : n \in 1..MaxFolderAbs},
     anime_season : {Some(2)},
     anime_type : {""}]
    \cup
    [episode_number : {EpisodeDigits(n) : n \in 1..MaxFolderAbs},
     anime_season : {None},
     anime_type : {"OVA"}]

\* the k-th file of the download: a name of its own, parsed as drawn
DownloadedFiles(k) ==
    { [path |-> FolderPath([kind |-> "raw", season |-> 0, episode |-> 0,
                            raw |-> k, lang |-> ""], ext),
       parsed |-> parsed]
      : ext \in FolderExtensions, parsed \in ParsedNames }

\* a file that bears the template's name, as an earlier run leaves it:
\* anitopy.parse reads the season and the episode out of SxxEyy
TemplatedFiles ==
    { [path |-> FolderPath(TemplatedStem(season, episode, ""), ext),
       parsed |-> [episode_number |-> EpisodeDigits(episode),
                   anime_season |-> Some(season),
                   anime_type |-> ""]]
      : season \in 0..MaxFolderSeasons, episode \in 1..MaxFolderAbs,
        ext \in FolderExtensions }

\* the listings of the folder, in the order of os.listdir
FolderListings ==
    { files \in SeqsUpTo(UNION {DownloadedFiles(k) : k \in 1..MaxFiles}
                         \cup TemplatedFiles, MaxFiles)
      : /\ files # << >>
        /\ \A i \in 1..Len(files) :
              files[i].path.name.stem.kind = "raw"
                 => files[i].path.name.stem.raw = i
        /\ \A i, j \in 1..Len(files) :
              i < j => files[i].path # files[j].path }

FolderInit ==
    /\ season_data \in FolderSeasonLists
    /\ absolute_episode = 0
    /\ map_result = NoneNone
    /\ map_pc = "idle"
    /\ \E files \in FolderListings :
          /\ videos = SelectSeq(files, IsVideo)
          /\ subtitles = SelectSeq(files, IsSubtitle)
          /\ all_files = SortedFiles(SelectSeq(files, IsVideo)
                                     \o SelectSeq(files, IsSubtitle))
          /\ fs = {files[i].path : i \in 1..Len(files)}
    /\ file_index = 1
    /\ processed_episodes = {}
    /\ dry_run \in BOOLEAN
    /\ rclone_remote \in BOOLEAN
    /\ bundle_ova \in BOOLEAN
    /\ export_nfo \in BOOLEAN
    /\ current = << >>
    /\ sub_list = << >>
    /\ dirs = {"folder"}
    /\ nfo_files = {}
    /\ ops = << >>
    /\ warnings = << >>
    /\ pf_pc = "file"
    /\ ResIdle
    /\ UqIdle
    /\ SgIdle

FolderNext ==
    \/ SkipUnparsedEpisode
    \/ SkipProcessedEpisode
    \/ SkipUnresolvedSeason
    \/ RenameVideo
    \/ NoVideoFile
    \/ SubtitleUnparsed
    \/ SubtitleOfOtherEpisode
    \/ RenameSubtitle
    \/ MarkProcessed
    \/ ProcessFolderReturns

SpecFolder == FolderInit /\ [][FolderNext]_vars

\* process_folder again, on folders whose names bear language tags.  The
\* tags some names carry in brackets: two spellings of a tag that line 127
\* knows, another tag it knows, one it does not know, and no tag
LanguageTags == {"", "eng", "ENG", "jpn", "fre"}

\* what anitopy.parse finds in the tagged names
TaggedParsedNames ==
    [episode_number : {EpisodeInvalid}
                      \cup {EpisodeDigits(n) : n \in 1..MaxFolderAbs},
     anime_season : {None},
     anime_type : {""}]

\* the k-th file of the download, with or without a tag
TaggedDownloads(k) ==
    { [path |-> FolderPath([kind |-> "raw", season |-> 0, episode |-> 0,
                            raw |-> k, lang |-> lang], ext),
       parsed |-> parsed]
      : ext \in FolderExtensions, parsed \in TaggedParsedNames,
        lang \in LanguageTags }

\* a file named by an earlier run, with the tag that run kept
TaggedTemplated ==
    { [path |-> FolderPath(TemplatedStem(1, episode, lang), ext),
       parsed |-> [episode_number |-> EpisodeDigits(episode),
                   anime_season |-> Some(1),
                   anime_type |-> ""]]
      : episode \in 1..MaxFolderAbs, ext \in FolderExtensions,
        lang \in {"", "eng", "jpn"} }

\* the listings of at most n files, in the order of os.listdir
RECURSIVE TaggedListingsUpTo(_)
TaggedListingsUpTo(n) ==
    IF n = 0 THEN {<< >>}
    ELSE LET shorter == TaggedListingsUpTo(n - 1)
         IN shorter
            \cup {Append(files, f) :
                     files \in {l \in shorter : Len(l) = n - 1},
                     f \in TaggedDownloads(n) \cup TaggedTemplated}

TagInit ==
    /\ season_data \in FolderSeasonLists
    /\ absolute_episode = 0
    /\ map_result = NoneNone
    /\ map_pc = "idle"
    /\ \E files \in TaggedListingsUpTo(MaxFiles) :
          /\ files # << >>
          /\ \A i, j \in 1..Len(files) : i < j => files[i].path # files[j].path
          /\ videos = SelectSeq(files, IsVideo)
          /\ subtitles = SelectSeq(files, IsSubtitle)
          /\ all_files = SortedFiles(SelectSeq(files, IsVideo)
                                     \o SelectSeq(files, IsSubtitle))
          /\ fs = {files[i].path : i \in 1..Len(files)}
    /\ file_index = 1
    /\ processed_episodes = {}
    /\ dry_run \in BOOLEAN
    /\ rclone_remote \in BOOLEAN
    /\ bundle_ova = FALSE
    /\ export_nfo = FALSE
    /\ current = << >>
    /\ sub_list = << >>
    /\ dirs = {"folder"}
    /\ nfo_files = {}
    /\ ops = << >>
    /\ warnings = << >>
    /\ pf_pc = "file"
    /\ ResIdle
    /\ UqIdle
    /\ SgIdle

SpecTags == TagInit /\ [][FolderNext]_vars

----------------------------------------------------------------------------
(* One run of process_show_group over a group of drawn files *)

\* renamer.py:19
GROUP_VIDEO_EXTENSIONS == {".mkv", ".mp4", ".avi", ".mov"}

GroupExtensions == {".mkv", ".srt"}

\* line 89: what parse_filename makes of a path and of the season and
\* episode anitopy finds in its name
ParsedFile(path, season, episode) ==
    [path |-> path, season |-> season, episode |-> episode,
     is_video |-> path.name.ext \in GROUP_VIDEO_EXTENSIONS]

\* the k-th file of the listing when its name is not the template's
GroupDownloads(k) ==
    { ParsedFile(FolderPath([kind |-> "raw", season |-> 0, episode |-> 0,
                             raw |-> k, lang |-> ""], ext), season, episode)
      : ext \in GroupExtensions, season \in 1..MaxGroupSeason,
        episode \in 1..MaxGroupEp }

\* the files that bear the template's name for their season and episode
GroupTemplated ==
    { ParsedFile(FolderPath(TemplatedStem(season, episode, ""), ext),
                 season, episode)
      : ext \in GroupExtensions, season \in 1..MaxGroupSeason,
        episode \in 1..MaxGroupEp }

\* the listings of up to n files
RECURSIVE GroupListingsUpTo(_)
GroupListingsUpTo(n) ==
    IF n = 0 THEN {<< >>}
    ELSE LET shorter == GroupListingsUpTo(n - 1) IN
         shorter \cup
         { Append(files, f) :
             files \in {l \in shorter : Len(l) = n - 1},
             f \in GroupDownloads(n) \cup GroupTemplated }

\* no two files of a listing have the same path
DistinctPaths(files) ==
    Cardinality({files[i].path : i \in 1..Len(files)}) = Len(files)

\* lines 112-116 (and 208-212)
GroupInit ==
    /\ group_files \in GroupListingsUpTo(MaxGroupFiles)
    /\ group_files # << >>
    /\ DistinctPaths(group_files)
    /\ remote \in BOOLEAN
    /\ group_videos = SortedGroup(SelectSeq(group_files, IsGroupVideo), FALSE)
    /\ pool = SelectSeq(group_files, IsGroupSubtitle)
    /\ season_offsets =
          calculate_season_offsets(SelectSeq(group_files, IsGroupVideo))
    /\ video_index = 1
    /\ unmatched_videos = << >>
    /\ matches = << >>
    /\ sorted_videos = << >>
    /\ sorted_subtitles = << >>
    /\ renamed_files = << >>
    /\ unmatched_report = << >>
    /\ group_ops = << >>
    /\ group_pc = "match"
    /\ fs = {group_files[i].path : i \in 1..Len(group_files)}
    /\ MapIdle
    /\ ResIdle
    /\ UqIdle
    /\ PfIdle

GroupNext ==
    \/ ReturnNoVideos
    \/ SmartMatchFound
    \/ SmartMatchNone
    \/ StartRelativeMatch
    \/ ReportUnmatched
    \/ RelativePair
    \/ FinishRelativeMatch

SpecGroup == GroupInit /\ [][GroupNext]_vars

\* either program at work on its folder or group: process_folder with the
\* list files['subtitles'], or process_show_group with its list subtitles
PoolsInit == FolderInit \/ GroupInit

PoolsNext == FolderNext \/ GroupNext

SpecPools == PoolsInit /\ [][PoolsNext]_vars

----------------------------------------------------------------------------
(* Properties of calculate_season_episode *)

AllKnown(data) == \A i \in 1..Len(data) : ~IsNone(data[i].episodes)

\* the episodes of the first k seasons of q whose count is known
RECURSIVE KnownBefore(_, _)
KnownBefore(q, k) ==
    IF k = 0 THEN 0
    ELSE KnownBefore(q, k - 1)
         + (IF IsNone(q[k].episodes) THEN 0 ELSE Val(q[k].episodes))

\* every order in which the same seasons can be passed in
Reorderings(data) ==
    {[i \in 1..Len(data) |-> data[p[i]]] : p \in Permutations(1..Len(data))}

\* the seasons in ascending id order
AscendingById(data) ==
    CHOOSE q \in Reorderings(data) :
        \A i, j \in 1..Len(q) : i < j => q[i].id <= q[j].id

\* the first position whose cumulated count reaches a
FirstCovering(q, a) ==
    CHOOSE i \in 1..Len(q) :
        /\ a <= KnownBefore(q, i)
        /\ \A j \in 1..(i - 1) : a > KnownBefore(q, j)

\* C4: with known counts and 1 <= a <= total, the result is (i, a - offset)
\* for the first season i, in ascending id order, with a <= offset + count,
\* and it is the same for every order in which the seasons are passed in.
C4_KnownSeasonsMapping ==
    (/\ map_pc = "done"
     /\ season_data # << >>
     /\ AllKnown(season_data)
     /\ absolute_episode >= 1
     /\ absolute_episode <= KnownBefore(season_data, Len(season_data)))
    => LET q == AscendingById(season_data)
           i == FirstCovering(q, absolute_episode)
       IN /\ map_result = <<i, absolute_episode - KnownBefore(q, i - 1)>>
          /\ \A d \in Reorderings(season_data) :
                calculate_season_episode(absolute_episode, d) = map_result

\* two seasons passed in descending id order, the episode in the second one
C4_Witness ==
    /\ map_pc = "done"
    /\ Len(season_data) = 2
    /\ AllKnown(season_data)
    /\ season_data[1].id > season_data[2].id
    /\ season_data[1].episodes # season_data[2].episodes
    /\ absolute_episode = Val(season_data[2].episodes) + 1
    /\ map_result = <<2, 1>>

\* position of the first unknown-length season of q, 0 when there is none
FirstUnknown(q) ==
    IF AllKnown(q) THEN 0
    ELSE CHOOSE i \in 1..Len(q) :
            /\ IsNone(q[i].episodes)
            /\ \A j \in 1..(i - 1) : ~IsNone(q[j].episodes)

\* C6: an unknown-length season that the walk reaches with a > offset takes
\* every such episode as (i, a - offset), and no later season is returned.
C6_UnknownSeasonBucket ==
    (map_pc = "done" /\ season_data # << >> /\ absolute_episode >= 1)
    => LET q == AscendingById(season_data)
           i == FirstUnknown(q)
       IN i > 0 =>
            /\ (/\ \A k \in 1..(i - 1) : absolute_episode > KnownBefore(q, k)
                /\ absolute_episode > KnownBefore(q, i - 1))
               => map_result = <<i, absolute_episode - KnownBefore(q, i - 1)>>
            /\ Resolved(map_result) => map_result[1] <= i

\* an episode beyond a known first season lands in the unknown second one,
\* although a third season follows
C6_Witness ==
    /\ map_pc = "done"
    /\ Len(season_data) = 3
    /\ LET q == AscendingById(season_data)
       IN /\ ~IsNone(q[1].episodes)
          /\ IsNone(q[2].episodes)
          /\ ~IsNone(q[3].episodes)
          /\ absolute_episode > Val(q[1].episodes) + 1
          /\ map_result = <<2, absolute_episode - Val(q[1].episodes)>>

\* C7: an empty season list or a <= 0 gives exactly (1, a).
C7_PreconditionHandling ==
    (map_pc = "done" /\ (season_data = << >> \/ absolute_episode <= 0))
    => map_result = <<1, absolute_episode>>

\* a <= 0 with a season list whose first season has unknown length
C7_Witness ==
    /\ map_pc = "done"
    /\ season_data # << >>
    /\ IsNone(AscendingById(season_data)[1].episodes)
    /\ absolute_episode <= 0
    /\ map_result = <<1, absolute_episode>>

\* C8: for a < b that both resolve, season(a) <= season(b), and in the same
\* season episode(a) <= episode(b).
C8_Monotonicity ==
    map_pc = "done" =>
        \A b \in AbsoluteEpisodes :
            LET rb == calculate_season_episode(b, season_data) IN
            (absolute_episode < b /\ Resolved(map_result) /\ Resolved(rb))
            => /\ map_result[1] <= rb[1]
               /\ map_result[1] = rb[1] => map_result[2] <= rb[2]

\* a resolves into the last season while a larger b is beyond all seasons
C8_Witness ==
    /\ map_pc = "done"
    /\ Len(season_data) = 2
    /\ AllKnown(season_data)
    /\ map_result = <<2, 1>>
    /\ \E b \in AbsoluteEpisodes :
          /\ b > absolute_episode
          /\ ~Resolved(calculate_season_episode(b, season_data))
    /\ \E b \in AbsoluteEpisodes :
          /\ b > absolute_episode
          /\ calculate_season_episode(b, season_data) = <<2, 2>>

\* what a resolved result (s, e) of a >= 1 on a non-empty list says: season
\* s is one of the list, the seasons before it in id order have known
\* counts that with e add up to a, e is at least 1 and within season s when
\* its count is known
RoundTrip ==
    (/\ map_pc = "done"
     /\ season_data # << >>
     /\ absolute_episode >= 1
     /\ Resolved(map_result))
    => LET q == AscendingById(season_data)
           s == map_result[1]
           e == map_result[2]
       IN /\ s \in 1..Len(q)
          /\ e >= 1
          /\ \A k \in 1..(s - 1) : ~IsNone(q[k].episodes)
          /\ absolute_episode = e + KnownBefore(q, s - 1)
          /\ ~IsNone(q[s].episodes) => e <= Val(q[s].episodes)

\* C30: a resolved (s, e) of a >= 1 on a non-empty season list has e >= 1,
\* a = e + the episode counts of the s-1 seasons before season s in id
\* order, and e within the count of season s when it is known; and the call
\* leaves the season list it was given as it was.
C30_RoundTrip == [](RoundTrip) /\ [][season_data' = season_data]_vars

\* an episode resolved into the third season, behind two seasons of known
\* and different lengths passed in out of id order
C30_Witness ==
    /\ map_pc = "done"
    /\ Len(season_data) = 3
    /\ season_data[1].id > season_data[2].id
    /\ AllKnown(season_data)
    /\ Resolved(map_result)
    /\ map_result[1] = 3
    /\ map_result[2] >= 1
    /\ LET q == AscendingById(season_data)
       IN /\ Val(q[1].episodes) # Val(q[2].episodes)
          /\ Val(q[1].episodes) > 0
          /\ Val(q[2].episodes) > 0

----------------------------------------------------------------------------
(* Properties of get_anime_season_data *)

NoDuplicates(seq) == \A i, j \in 1..Len(seq) : i # j => seq[i] # seq[j]

\* C9: the traversal terminates on every relation graph (the calls in their
\* edge loop are distinct fetched ids, so the recursion cannot grow beyond
\* the ids there are), and a call on an id that is already in fetched_ids
\* returns an empty list without a query.
C9_CycleGuard ==
    /\ Len(stack) <= Cardinality(fetched_ids)
    /\ \A i, j \in 1..Len(stack) : i # j => stack[i].id # stack[j].id
    /\ last_return.visited =>
          (last_return.value = << >> /\ ~last_return.queried)

\* C10: the list the outermost call returns holds every season id at most
\* once, whatever the relation graph and the cache.
C10_NoDoubleCounting ==
    res_pc = "done" => NoDuplicates(res_result)

\* the ids of the calls of this traversal that failed
FailedIds == {f.id : f \in failures}

\* the ids a failed call had gathered and gave up
GivenUp == UNION {Range(f.seasons) : f \in failures}

SeasonEdge(edge) ==
    /\ edge.relationType \in {"SEQUEL", "PREQUEL"}
    /\ edge.format \in {"TV", "OVA", "ONA"}

\* the entries that the season edges of entry n lead to, as far as AniList
\* has answered for n
SeasonTargets(n) ==
    IF IsNone(relations[n]) THEN {}
    ELSE {Val(relations[n])[i].id :
             i \in {j \in 1..Len(Val(relations[n])) :
                       SeasonEdge(Val(relations[n])[j])}}

\* the entries reached from ids along season edges
RECURSIVE SeasonReach(_)
SeasonReach(ids) ==
    LET further == ids \cup UNION {SeasonTargets(n) : n \in ids}
    IN IF further = ids THEN ids ELSE SeasonReach(further)

\* C25: a traversal calls, queries and returns only entries that are reached
\* from its root along SEQUEL or PREQUEL edges to TV, OVA or ONA entries;
\* and when no call of it failed, every such edge of an entry it queried was
\* recursed into: its node was queried too or came back in the list.
C25_RecursionRule ==
    /\ res_pc # "idle"
          => /\ fetched_ids \subseteq SeasonReach({root_id})
             /\ pending # 0 => pending \in SeasonReach({root_id})
             /\ \A i \in 1..Len(stack) :
                   Range(stack[i].seasons) \subseteq SeasonReach({root_id})
    /\ res_pc = "done" => Range(res_result) \subseteq SeasonReach({root_id})
    /\ (res_pc = "done" /\ failures = {})
          => \A n \in fetched_ids :
                SeasonTargets(n) \subseteq fetched_ids \cup Range(res_result)

\* a traversal that returned a sequel of its root and left out an entry the
\* root is related to by another kind of edge
C25_Witness ==
    /\ res_pc = "done"
    /\ root_id \in fetched_ids
    /\ \E i, j \in 1..Len(Val(relations[root_id])) :
          LET followed == Val(relations[root_id])[i]
              other == Val(relations[root_id])[j]
          IN /\ SeasonEdge(followed)
             /\ followed.id \in Range(res_result)
             /\ ~SeasonEdge(other)
             /\ other.id \notin Range(res_result)

----------------------------------------------------------------------------
(* Properties of get_unique_filepath *)

\* C3: a free path is returned unchanged; an occupied one becomes
\* base_vK.ext for the smallest K >= 2 whose path is free, found within as
\* many tries as there are files; the returned path is never occupied.
\* Both for the local and for the remote variant.
C3_UniqueFilepath ==
    uq_pc \in {"local", "remote"} =>
        /\ uq_path \notin fs => uq_result = uq_path
        /\ uq_path \in fs =>
              \E K \in 2..(Cardinality(fs) + 1) :
                  /\ uq_result = WithVersion(uq_path, K)
                  /\ \A j \in 2..(K - 1) : WithVersion(uq_path, j) \in fs
        /\ uq_result \notin fs

\* X.mkv and X_v2.mkv exist: the local variant answers X_v3.mkv
C3_Witness ==
    /\ uq_pc = "local"
    /\ uq_path.name.sfx = << >>
    /\ uq_path \in fs
    /\ WithVersion(uq_path, 2) \in fs
    /\ uq_result = WithVersion(uq_path, 3)

----------------------------------------------------------------------------
(* Properties of process_folder *)

\* C1: a file whose name already is the name the template yields for it is
\* left alone: no rename or move is printed for it and no free variant of
\* its name is looked for, so no operation has its own source as the name
\* it asks for.
C1_Idempotence ==
    \A i \in 1..Len(ops) : ops[i].src # ops[i].candidate

\* C2: in one run, dry or not, local or remote, no two files are given the
\* same destination path.
C2_CollisionFree ==
    \A i, j \in 1..Len(ops) : i < j => ops[i].dst # ops[j].dst

\* every season has a known count and a lies beyond all of them
Exhausted(a, data) ==
    /\ data # << >>
    /\ a > 0
    /\ AllKnown(data)
    /\ a > KnownBefore(data, Len(data))

\* C5: past the last season of known counts calculate_season_episode
\* answers (None, None), never (1, a), and process_folder takes that as
\* unresolved: neither the file of the outer loop whose season is asked of
\* the season data nor a subtitle of the inner loop is renamed, and no
\* episode is worked on under season 1 in its place.
C5_ExhaustedSeasons ==
    /\ \A a \in AbsoluteEpisodes :
          Exhausted(a, season_data)
             => calculate_season_episode(a, season_data) = NoneNone
    /\ \A i \in 1..Len(ops) :
          ops[i].mapped => ~Exhausted(ops[i].absolute_episode, season_data)
    /\ (pf_pc = "subs"
        /\ AsksSeasonData(all_files[file_index].parsed, season_data))
          => ~Exhausted(current.absolute_episode, season_data)

\* a run that renamed an episode and skipped one past the last season
C5_Witness ==
    /\ pf_pc = "done"
    /\ ops # << >>
    /\ \E i \in 1..Len(warnings) :
          /\ warnings[i].what = "season"
          /\ \E j \in 1..Len(all_files) :
                /\ all_files[j].path = warnings[i].path
                /\ Exhausted(Val(EpisodeNumber(all_files[j].parsed, 0)),
                             season_data)

\* the loop of line 201 is through with file f: it warned and skipped it, or
\* it went through the episode f belongs to
AccountedFor(f) ==
    \/ \E i \in 1..Len(warnings) : warnings[i].path = f.path
    \/ /\ ~IsNone(EpisodeNumber(f.parsed, 0))
       /\ Val(EpisodeNumber(f.parsed, 0)) \in processed_episodes

\* C17: a rename or move that fails (os.rename raising OSError, or moveto
\* and then copyto returning False) is caught: process_folder never ends by
\* an exception of a rename, and when it returns, to let the later folders
\* be processed, its loop has been through every file of the folder, the
\* ones after the failed file included.
C17_FailureIsolation ==
    /\ pf_pc \in {"file", "subs", "done"}
    /\ pf_pc = "done"
          => /\ file_index = Len(all_files) + 1
             /\ \A k \in 1..Len(all_files) : AccountedFor(all_files[k])

\* a folder processed to its end in which one file's rename failed and a
\* rename of another file, attempted afterwards, went through
C17_Witness ==
    /\ pf_pc = "done"
    /\ \E i, j \in 1..Len(ops) :
          /\ i < j
          /\ ops[i].outcome = "failed"
          /\ ops[j].src # ops[i].src
          /\ ops[j].outcome \in {"renamed", "moved", "copied_deleted"}

\* the positions of the calls of one command among the calls made for a file
CallsOf(calls, cmd) == {k \in 1..Len(calls) : calls[k].cmd = cmd}

\* C18: for each file moved on a remote, copyto is called only right after
\* the moveto of that file returned False, delete only right after that
\* copyto returned True (so never after a failed copy), each of the three at
\* most once, and no file gets a second operation.
C18_RemoteFallback ==
    /\ \A i \in 1..Len(ops) :
          LET calls == ops[i].calls
          IN /\ \A cmd \in {"moveto", "copyto", "delete"} :
                   Cardinality(CallsOf(calls, cmd)) <= 1
             /\ CallsOf(calls, "moveto") \subseteq {1}
             /\ \A k \in CallsOf(calls, "copyto") :
                   k > 1 /\ calls[k-1] = Call("moveto", FALSE)
             /\ \A k \in CallsOf(calls, "delete") :
                   k > 1 /\ calls[k-1] = Call("copyto", TRUE)
             /\ (rclone_remote /\ ~dry_run) => CallsOf(calls, "moveto") = {1}
    /\ \A i, j \in 1..Len(ops) : ops[i].src = ops[j].src => i = j

\* a remote run in which the move and the copy of one file failed, and the
\* move of another failed while its copy went through and was followed by the
\* delete
C18_Witness ==
    /\ rclone_remote
    /\ \E i, j \in 1..Len(ops) :
          /\ ops[i].calls = <<Call("moveto", FALSE), Call("copyto", FALSE)>>
          /\ Len(ops[j].calls) = 3
          /\ ops[j].calls[2] = Call("copyto", TRUE)
          /\ ops[j].calls[3].cmd = "delete"

\* the season and episode lines 204-233 identify a file as, NoneNone when
\* they skip it
FileEpisode(f) ==
    IF IsNone(EpisodeNumber(f.parsed, 0))
    THEN NoneNone
    ELSE ResolveSeasonEpisode(f.parsed, Val(EpisodeNumber(f.parsed, 0)),
                              season_data)

\* file f got a rename operation of its own, named after its episode
HasOwnOperation(f) ==
    \E i \in 1..Len(ops) :
       /\ ops[i].src = f.path
       /\ <<ops[i].candidate.name.stem.season,
            ops[i].candidate.name.stem.episode>> = FileEpisode(f)

\* C19: when two distinct files of the folder are identified as the same
\* episode, each of them has got, by the end of the run, a rename operation
\* of its own with the base name of that episode.
C19_EachFileItsOperation ==
    pf_pc = "done"
    => \A k, l \in 1..Len(all_files) :
          (/\ k # l
           /\ Resolved(FileEpisode(all_files[k]))
           /\ FileEpisode(all_files[k]) = FileEpisode(all_files[l]))
          => HasOwnOperation(all_files[k]) /\ HasOwnOperation(all_files[l])

\* the tag a name bears, as a reader takes it: its letters in lower case
\* when they are eng or jpn, nothing otherwise
TagOf(path) ==
    CASE path.name.stem.lang \in {"eng", "ENG"} -> "eng"
      [] path.name.stem.lang \in {"jpn", "JPN"} -> "jpn"
      [] OTHER -> ""

\* every new name keeps the recognised tag of the old one, in lower case,
\* between the base name and the extension, and has no tag otherwise
TagPreserved ==
    \A i \in 1..Len(ops) :
       /\ ops[i].candidate.name.stem.lang = TagOf(ops[i].src)
       /\ ops[i].dst.name.stem.lang = TagOf(ops[i].src)
       /\ ops[i].dst.name.ext = ops[i].src.name.ext
       /\ ops[i].dst.name.stem.kind = "tpl"

\* operations i and j are of two subtitles of one episode with the same
\* extension and different recognised tags
TaggedApart(i, j) ==
    /\ ops[i].kind = "subtitle" /\ ops[j].kind = "subtitle"
    /\ ops[i].candidate.name.stem.season = ops[j].candidate.name.stem.season
    /\ ops[i].candidate.name.stem.episode = ops[j].candidate.name.stem.episode
    /\ ops[i].src.name.ext = ops[j].src.name.ext
    /\ TagOf(ops[i].src) # "" /\ TagOf(ops[j].src) # ""
    /\ TagOf(ops[i].src) # TagOf(ops[j].src)

\* C20: the recognised tag of the old name is kept, lower-cased, before the
\* extension of the new name, a name without one gets none, and two
\* subtitles of one episode with the same extension and different tags get
\* different destinations, neither with a _vN suffix.
C20_LanguageTag ==
    /\ TagPreserved
    /\ \A i, j \in 1..Len(ops) :
          TaggedApart(i, j)
          => /\ ops[i].dst # ops[j].dst
             /\ ops[i].dst.name.sfx = << >>
             /\ ops[j].dst.name.sfx = << >>

\* the same, for subtitles that do not bear their new name already
C20_LanguageTagOfNewNames ==
    /\ TagPreserved
    /\ \A i, j \in 1..Len(ops) :
          (/\ TaggedApart(i, j)
           /\ ops[i].src # ops[i].candidate
           /\ ops[j].src # ops[j].candidate)
          => /\ ops[i].dst # ops[j].dst
             /\ ops[i].dst.name.sfx = << >>
             /\ ops[j].dst.name.sfx = << >>

\* two subtitles of one episode, tagged [ENG] and [jpn], both renamed
C20_Witness ==
    \E i, j \in 1..Len(ops) :
       /\ TaggedApart(i, j)
       /\ ops[i].src.name.stem.lang = "ENG"
       /\ ops[i].src # ops[i].candidate
       /\ ops[j].src # ops[j].candidate

\* the parsed record has no usable episode number: the key is absent, or
\* its value is None or the empty string
NoUsableEpisode(f) == f.parsed.episode_number.kind \in {"absent", "invalid"}

\* C21: a file whose parsed record has no usable episode number gets no
\* rename operation, and once the loop is over it has been warned about; the
\* run does not end by an exception and goes through the other files.
C21_ParseFailureSkipped ==
    /\ pf_pc \in {"file", "subs", "done"}
    /\ \A k \in 1..Len(all_files) :
          NoUsableEpisode(all_files[k])
          => /\ \A i \in 1..Len(ops) : ops[i].src # all_files[k].path
             /\ pf_pc = "done"
                   => \E i \in 1..Len(warnings) :
                         /\ warnings[i].what = "episode"
                         /\ warnings[i].path = all_files[k].path

\* the operations made for file f
OperationsOf(f) == {i \in 1..Len(ops) : ops[i].src = f.path}

\* f bears the name the template gives its episode already
NamedAsPlanned(f) ==
    /\ f.path.name.stem.kind = "tpl"
    /\ <<f.path.name.stem.season, f.path.name.stem.episode>> = FileEpisode(f)

\* C22: when process_folder has returned from a run that is not a dry run,
\* every file with a parsed episode and a resolvable season has reached
\* exactly one terminal state: one rename operation that went through
\* (Renamed) or did not (Failed), or none because the file bears its name
\* already (SkippedIdempotent).
C22_PerFileTerminalState ==
    (pf_pc = "done" /\ ~dry_run)
    => \A k \in 1..Len(all_files) :
          (/\ ~NoUsableEpisode(all_files[k])
           /\ Resolved(FileEpisode(all_files[k])))
          => \/ /\ Cardinality(OperationsOf(all_files[k])) = 1
                /\ \A i \in OperationsOf(all_files[k]) :
                      ops[i].outcome \in {"renamed", "moved", "copied_deleted",
                                          "copied_kept", "failed"}
             \/ /\ OperationsOf(all_files[k]) = {}
                /\ NamedAsPlanned(all_files[k])

\* C23: in a dry run the storage stays as process_folder found it: the
\* files are the ones listed, under their old names, no directory has been
\* made and no .nfo file written.
C23_DryRunNoEffect ==
    dry_run
    => /\ fs = {all_files[k].path : k \in 1..Len(all_files)}
       /\ dirs = {"folder"}
       /\ nfo_files = {}

\* (season, episode) a comes before b, or is b
NotAfter(a, b) == a[1] < b[1] \/ (a[1] = b[1] /\ a[2] <= b[2])

\* the season and episode an operation names its file after
PlannedEpisode(op) ==
    <<op.candidate.name.stem.season, op.candidate.name.stem.episode>>

\* C24: process_folder renames the videos of the folder in ascending
\* (season, episode) order: of two video operations the earlier one is of
\* the lower, or the same, season and episode.
C24_AscendingOrder ==
    \A i, j \in 1..Len(ops) :
       (i < j /\ ops[i].kind = "video" /\ ops[j].kind = "video")
       => NotAfter(PlannedEpisode(ops[i]), PlannedEpisode(ops[j]))

\* C27: a subtitle is renamed to the base name of an episode only when its
\* own season and episode, resolved as lines 217-233 resolve a video's (a
\* parsed season or an OVA/special type honoured), are that episode's.
C27_SubtitleOwnEpisode ==
    \A i \in 1..Len(ops) :
       ops[i].kind = "subtitle"
       => \A k \in 1..Len(all_files) :
             all_files[k].path = ops[i].src
             => PlannedEpisode(ops[i]) = FileEpisode(all_files[k])

\* C28: the guard of lines 214-215 skips a file only for an earlier file
\* of the same season and episode: when process_folder has returned, a video
\* with a parsed episode and a resolved season that no earlier file of the
\* folder shares has got its rename operation.
C28_GuardBySeasonAndEpisode ==
    pf_pc = "done"
    => \A k \in 1..Len(all_files) :
          (/\ IsVideo(all_files[k])
           /\ ~NoUsableEpisode(all_files[k])
           /\ Resolved(FileEpisode(all_files[k]))
           /\ \A l \in 1..(k - 1) :
                 FileEpisode(all_files[l]) # FileEpisode(all_files[k]))
          => HasOwnOperation(all_files[k])

----------------------------------------------------------------------------
(* Properties of process_show_group *)

\* the pairs of one tier, in the order they were made
PairsOf(tiers) == SelectSeq(matches, LAMBDA m : m.tier \in tiers)

\* C12: a video that has a subtitle of its own season and episode in the
\* pool is paired with such a subtitle, wherever it stands in the pool; a
\* season-1 subtitle numbered with the video's absolute episode is taken
\* only when the pool holds no exact one.
C12_TierPriority ==
    \A i \in 1..Len(matches) :
       (/\ matches[i].tier \in {"exact", "absolute"}
        /\ \E k \in 1..Len(matches[i].pool) :
              IsExact(matches[i].video, matches[i].pool[k]))
       => IsExact(matches[i].video, matches[i].sub)

\* the videos and the subtitles of the group that the exact and the
\* absolute tier left without a partner
UnmatchedAfterTiers ==
    {group_videos[i] : i \in 1..Len(group_videos)}
       \ {m.video : m \in Range(PairsOf({"exact", "absolute"}))}

SubtitlesAfterTiers ==
    {f \in Range(group_files) : ~f.is_video}
       \ {m.sub : m \in Range(PairsOf({"exact", "absolute"}))}

\* C13: files are paired by position, and renamed, only in a group in which
\* as many videos as subtitles are left after the two tiers, and at least
\* one.
C13_RelativeOnlyOnEqualCounts ==
    (group_pc = "relative" \/ PairsOf({"relative"}) # << >>
       \/ group_ops # << >>)
    => /\ Cardinality(UnmatchedAfterTiers) = Cardinality(SubtitlesAfterTiers)
       /\ Cardinality(UnmatchedAfterTiers) > 0

\* a group in which one video found its subtitle and the rest was paired
\* by position
C13_Witness ==
    /\ group_pc = "done"
    /\ PairsOf({"exact", "absolute"}) # << >>
    /\ PairsOf({"relative"}) # << >>
    /\ group_ops # << >>

\* C14: the pairs made by position go up in the videos' episodes and in
\* the subtitles' (season, episode); every video and every subtitle that
\* was left is in exactly one of them; no video is returned as unmatched.
C14_RelativePairing ==
    (group_pc = "done" /\ PairsOf({"relative"}) # << >>)
    => LET pairs == PairsOf({"relative"}) IN
       /\ \A i, j \in 1..Len(pairs) :
             i < j => /\ pairs[i].video.episode <= pairs[j].video.episode
                      /\ ~KeyLess(GroupKey(pairs[j].sub, FALSE),
                                  GroupKey(pairs[i].sub, FALSE))
       /\ {pairs[i].video : i \in 1..Len(pairs)} = UnmatchedAfterTiers
       /\ {pairs[i].sub : i \in 1..Len(pairs)} = SubtitlesAfterTiers
       /\ Len(pairs) = Cardinality(UnmatchedAfterTiers)
       /\ Len(pairs) = Cardinality(SubtitlesAfterTiers)
       /\ unmatched_report = << >>

\* two pairs made by position whose videos were found in another order
\* than that of their episodes
C14_Witness ==
    /\ group_pc = "done"
    /\ LET pairs == PairsOf({"relative"}) IN
          /\ Len(pairs) >= 2
          /\ pairs[1].video.season > pairs[2].video.season
          /\ pairs[1].video.episode < pairs[2].video.episode

\* the stem a file has after the run if every rename tried for it worked
PlannedStem(path) ==
    IF \E i \in 1..Len(group_ops) : group_ops[i].src = path
    THEN group_ops[CHOOSE i \in 1..Len(group_ops) :
                      group_ops[i].src = path].dst.name.stem
    ELSE path.name.stem

\* C15: a video returned as unmatched is renamed all the same, to the
\* template's name for its own season and episode.
C15_UnmatchedVideoRenamed ==
    group_pc = "done"
    => \A i \in 1..Len(unmatched_videos) :
          unmatched_videos[i].path \in Range(unmatched_report)
             => PlannedStem(unmatched_videos[i].path)
                   = TemplatedStem(unmatched_videos[i].season,
                                   unmatched_videos[i].episode, "")

\* C16: the two files of a pair of the exact or the absolute tier are both
\* renamed to one templated base name, unless they bear it already.
C16_TierPairsRenamed ==
    group_pc = "done"
    => \A i \in 1..Len(matches) :
          matches[i].tier \in {"exact", "absolute"}
             => /\ PlannedStem(matches[i].video.path).kind = "tpl"
                /\ PlannedStem(matches[i].video.path)
                      = PlannedStem(matches[i].sub.path)

\* C29: a pair of old and new name is in the renamed list only for a rename
\* or move that went through.
C29_RenamedOnlyOnSuccess ==
    \A i \in 1..Len(renamed_files) :
       \E k \in 1..Len(group_ops) :
          /\ group_ops[k].src = renamed_files[i][1]
          /\ group_ops[k].dst = renamed_files[i][2]
          /\ group_ops[k].outcome = "renamed"

----------------------------------------------------------------------------
(* Properties of the two subtitle pools *)

\* the paths of a list of files
PathsOf(files) == {files[i].path : i \in 1..Len(files)}

\* the pool of process_show_group: a subtitle is paired with one video at
\* most, a subtitle a match consumed is in no later pool, the pools only
\* shrink, and no file is renamed twice
GroupPoolConsumed ==
    /\ \A i, j \in 1..Len(matches) :
          matches[i].sub.path = matches[j].sub.path => i = j
    /\ \A i \in 1..Len(matches) :
          /\ matches[i].sub.path \in PathsOf(matches[i].pool)
          /\ PathsOf(pool) \subseteq PathsOf(matches[i].pool)
          /\ matches[i].tier \in {"exact", "absolute"}
                => matches[i].sub.path \notin PathsOf(pool)
          /\ \A j \in 1..Len(matches) :
                i < j => /\ PathsOf(matches[j].pool)
                               \subseteq PathsOf(matches[i].pool)
                         /\ matches[i].tier \in {"exact", "absolute"}
                               => matches[i].sub.path
                                     \notin PathsOf(matches[j].pool)
    /\ PathsOf(pool) \subseteq PathsOf(group_files)
    /\ \A i, j \in 1..Len(group_ops) :
          group_ops[i].src = group_ops[j].src => i = j

\* the subtitle operations process_folder has made
SubtitleOperations == {i \in 1..Len(ops) : ops[i].kind = "subtitle"}

\* the list files['subtitles'] of process_folder: a subtitle is renamed
\* once at most, a renamed subtitle is out of the list, and the list is what
\* is left of the subtitles of the folder
FolderPoolConsumed ==
    /\ \A i, j \in SubtitleOperations : ops[i].src = ops[j].src => i = j
    /\ \A i \in SubtitleOperations : ops[i].src \notin PathsOf(subtitles)
    /\ PathsOf(subtitles) \subseteq PathsOf(SelectSeq(all_files, IsSubtitle))
    /\ Len(subtitles) + Cardinality(SubtitleOperations)
          = Len(SelectSeq(all_files, IsSubtitle))

\* C26: in a matching pass each subtitle is paired with, or renamed for, at
\* most one video; once consumed it is out of the pool and is not matched
\* or renamed again; the pool only shrinks.
C26_PoolConsumption == GroupPoolConsumed /\ FolderPoolConsumed

\* a group whose first two videos each consumed a subtitle of their own
C26_Witness ==
    /\ Len(matches) >= 2
    /\ matches[1].tier \in {"exact", "absolute"}
    /\ matches[2].tier \in {"exact", "absolute"}
    /\ Len(matches[1].pool) >= 2
    /\ Len(pool) = Len(matches[1].pool) - 2

====
